---- MODULE Spec2Model ----
(***************************************************************************)
(* Model of src/index.js: an IPFS pubsub console.                          *)
(*                                                                         *)
(* main() starts a node (create), fetches its identity (node.id), counts   *)
(* the swarm peers, then enters the console: it registers the readline     *)
(* 'line' handler, renders the first prompt and registers the SIGINT       *)
(* handler.  Every 'line' event runs processCommand; every SIGINT runs the *)
(* cleanup handler; every message on a subscribed topic runs the callback  *)
(* given to node.pubsub.subscribe.                                         *)
(*                                                                         *)
(* JavaScript runs each handler to its first await without interruption.   *)
(* A handler that awaits an already settled promise (a command that made   *)
(* no node call) resumes from the microtask queue, before any other event  *)
(* except further 'line' events that readline emits from the same chunk of *)
(* input.  A handler that awaits a node call resumes when the node settles *)
(* the call, and then runs to its end (rl.prompt or process.exit).         *)
(*                                                                         *)
(* Text is a sequence of atoms: " " is one space, every other atom is a    *)
(* maximal run of non-space characters (a word).                           *)
(***************************************************************************)
EXTENDS Integers, Sequences, FiniteSets, Bags, TLC

VARIABLES
    mainPc,       \* where main() is: "start", "create", "id", "swarm", "console", "createFailed", "idFailed"
    lineHandler,  \* rl.on('line', ...) has been registered
    sigHandler,   \* process.on('SIGINT', ...) has been registered
    nodeState,    \* "none" while create is awaited, "startFailed", "running", or "stopped"
                  \* once a stop call has resolved
    pending,      \* bag of node calls made by processCommand that have not settled
    resuming,     \* number of line handlers whose processCommand returned without a node call
                  \* and whose continuation (rl.prompt) is queued as a microtask
    sigPending,   \* number of SIGINT handlers awaiting node.stop()
    stopCalls,    \* number of node.stop() invocations so far
    subs,         \* bag of topics: one copy per callback registered with node.pubsub.subscribe
    lastOut,      \* the console writes of the most recent step that wrote, in order
    last,         \* the most recent input line as parsed, and the node call it made
    nLines,       \* number of 'line' events so far
    nSignals,     \* number of SIGINT events so far
    exitCode,     \* NotExited, or the code the process ended with
    random,       \* what Math.random() gives to each of the four calls of getRandomPort
    ports,        \* swarmPort, wsPort, apiPort, gatewayPort (0 before they are generated)
    repoPath      \* the repository path (empty before it is generated)

vars == <<mainPc, lineHandler, sigHandler, nodeState, pending, resuming, sigPending,
          stopCalls, subs, lastOut, last, nLines, nSignals, exitCode, random, ports, repoPath>>

portVars == <<random, ports, repoPath>>

----------------------------------------------------------------------------
(* Bounds of the model *)

MaxLines == 2        \* 'line' events in one run
MaxSignals == 1      \* SIGINT events in one run
MaxArgs == 2         \* words after the verb in an input line
MaxPayload == 1      \* bytes in an inbound message
MaxPeers == 1        \* peers in the list node.swarm.peers() gives at startup
CoarseBits == 1      \* Math.random() values i / 2^CoarseBits
MaxTop == 5          \* Math.random() values 1 - j / 2^53, j in 1..MaxTop

NotExited == -1

----------------------------------------------------------------------------
(* Text *)

SP == " "
Verbs == {"sub", "pub", "topics", "peers", "info", "swarm", "quit"}
OtherWords == {"help"}
TopicWords == {"a", "b"}

\* String.prototype.trim: drop leading and trailing spaces
RECURSIVE TrimLeft(_)
TrimLeft(s) == IF s # <<>> /\ Head(s) = SP THEN TrimLeft(Tail(s)) ELSE s

RECURSIVE TrimRight(_)
TrimRight(s) ==
    IF s # <<>> /\ s[Len(s)] = SP THEN TrimRight(SubSeq(s, 1, Len(s) - 1)) ELSE s

trim(s) == TrimRight(TrimLeft(s))

\* String.prototype.split(' '): the pieces between single spaces; two adjacent
\* spaces give an empty piece, and the empty string gives one empty piece
RECURSIVE SplitFrom(_, _)
SplitFrom(s, cur) ==
    IF s = <<>> THEN <<cur>>
    ELSE IF Head(s) = SP THEN <<cur>> \o SplitFrom(Tail(s), <<>>)
    ELSE SplitFrom(Tail(s), cur \o <<Head(s)>>)

split(s) == SplitFrom(s, <<>>)

\* Array.prototype.join(' ')
RECURSIVE join(_)
join(ws) ==
    IF ws = <<>> THEN <<>>
    ELSE IF Len(ws) = 1 THEN ws[1]
    ELSE ws[1] \o <<SP>> \o join(Tail(ws))

\* Array.prototype.slice(1)
slice1(ws) == IF ws = <<>> THEN <<>> ELSE Tail(ws)

\* !x for a string or undefined: true of undefined and of the empty string
Missing(args, i) == i > Len(args) \/ args[i] = <<>>

----------------------------------------------------------------------------
(* Input lines *)

\* the words after the verb: none, or a topic followed by message words
ArgLists ==
    {<<>>} \cup {<<t>> \o [i \in 1..k |-> "m"] : t \in TopicWords, k \in 0..(MaxArgs - 1)}

RECURSIVE WithGaps(_, _)
WithGaps(ws, gap) ==
    IF ws = <<>> THEN <<>> ELSE gap \o <<Head(ws)>> \o WithGaps(Tail(ws), gap)

Gaps == {<<SP>>, <<SP, SP>>}       \* between two words: one space or two
Pads == {<<>>, <<SP>>}             \* before the first and after the last word

\* a verb that takes arguments followed by up to MaxArgs words, every gap of the
\* same width; any other first word alone; the empty line; each padded or not
Lines ==
    {p \o <<v>> \o WithGaps(l, g) \o p :
        p \in Pads, v \in {"sub", "pub", "peers"}, l \in ArgLists, g \in Gaps}
    \cup {p \o <<v>> \o p : p \in Pads, v \in Verbs \cup OtherWords}
    \cup Pads

----------------------------------------------------------------------------
(* Ports, lines 7-19.  Math.random() gives a double in [0, 1); the product and
   the sum of line 8 are each rounded to the nearest double, ties to the even
   mantissa.  Two kinds of value are drawn: i / 2^CoarseBits, for which product
   and sum are exact, and 1 - j / 2^53, the doubles just below 1, for which the
   roundings are computed in units of 2^-53 below the exact bound. *)

PortNames == {"swarm", "ws", "api", "gateway"}

\* lines 13-16: the arguments of the four calls
PortRange ==
    [swarm |-> <<4002, 4999>>, ws |-> <<5000, 5999>>,
     api |-> <<6000, 6999>>, gateway |-> <<7000, 7999>>]

RECURSIVE Pow2(_)
Pow2(n) == IF n = 0 THEN 1 ELSE 2 * Pow2(n - 1)

RandomValues ==
    {[top |-> FALSE, num |-> i] : i \in 0..(Pow2(CoarseBits) - 1)}
    \cup {[top |-> TRUE, num |-> j] : j \in 1..MaxTop}

ZeroRandom == [top |-> FALSE, num |-> 0]

\* the largest power of two that is at most x
RECURSIVE Pow2Below(_)
Pow2Below(x) == IF x < 2 THEN 1 ELSE 2 * Pow2Below(x \div 2)

\* the distance between neighbouring doubles around x >= 1, in units of 2^-53
UlpUnits(x) == 2 * Pow2Below(x)

\* x / m rounded to the nearest integer, a tie to the even one
RoundHalfEven(x, m) ==
    LET d == x \div m
        rem == x % m
    IN  IF 2 * rem < m THEN d
        ELSE IF 2 * rem > m THEN d + 1
        ELSE IF d % 2 = 0 THEN d ELSE d + 1

\* Math.floor(r * width + min), width = max - min
FloorOfScaled(min, width, r) ==
    IF ~r.top
    THEN min + (r.num * width) \div Pow2(CoarseBits)
    ELSE LET below == r.num * width                         \* r * width = width - below
             ulpP == UlpUnits(width - 1)
             p == ulpP * RoundHalfEven(below, ulpP)         \* rounded: width - p
             ulpS == UlpUnits(min + width - 1)
             t == RoundHalfEven(p, ulpS)                    \* sum rounded: min + width - t * ulpS
         IN  IF t = 0 THEN min + width ELSE min + width - 1

\* getRandomPort drawing from the inclusive range, Math.random() * (max - min + 1)
getRandomPortInclusive(min, max, r) == FloorOfScaled(min, max - min + 1, r)

\* lines 7-9
getRandomPort(min, max, r) == FloorOfScaled(min, max - min, r)

\* template literal of a number: its decimal digits
RECURSIVE Digits(_)
Digits(n) == IF n < 10 THEN <<ToString(n)>> ELSE Digits(n \div 10) \o <<ToString(n % 10)>>

\* line 19
RepoPath(swarmPort) == <<"./ipfs-repo-">> \o Digits(swarmPort)

\* lines 13-16
GeneratedPorts(r) ==
    [k \in PortNames |-> getRandomPort(PortRange[k][1], PortRange[k][2], r[k])]

----------------------------------------------------------------------------
(* Inbound payloads *)

REPLACEMENT == "U+FFFD"
Bytes == {97, 255}       \* 0x61 is "a"; 0xFF occurs in no UTF-8 encoding

Payloads == UNION {[1..n -> Bytes] : n \in 1..MaxPayload}

DecodeByte(b) == IF b = 97 THEN "a" ELSE REPLACEMENT

\* uint8ArrayToString(data), encoding utf8: never throws, a byte that is not
\* valid UTF-8 becomes U+FFFD
uint8ArrayToString(data) == [i \in 1..Len(data) |-> DecodeByte(data[i])]

Malformed(text) == \E i \in 1..Len(text) : text[i] = REPLACEMENT

----------------------------------------------------------------------------
(* Console output and node calls *)

Out(text) == [text |-> text, data |-> <<>>]
PROMPT == Out("> ")
Received(topic, data) == [text |-> "Received message on", data |-> data]

NoCall == [op |-> "none", topic |-> <<>>, message |-> <<>>]
Call(op, topic, message) == [op |-> op, topic |-> topic, message |-> message]

\* a call in flight is told apart by its operation and topic
Key(call) == [op |-> call.op, topic |-> call.topic]
One(x) == SetToBag({x})

LastWrite == lastOut[Len(lastOut)]

\* lines 126-134: the menu
Menu == <<Out("=== IPFS PubSub Interface ==="), Out("7. quit - Exit the application")>>

----------------------------------------------------------------------------
(* processCommand, lines 136-193, up to its first await: what it logs and the
   node call it makes *)

\* lines 140-146
caseSub(args) ==
    IF Missing(args, 1)
    THEN [log |-> <<Out("Usage: sub <topic>")>>, call |-> NoCall]
    ELSE [log |-> <<>>, call |-> Call("subscribe", args[1], <<>>)]

\* casePub with the arity check of line 149 reduced to the topic
casePubTopicOnly(args) ==
    IF Missing(args, 1)
    THEN [log |-> <<Out("Usage: pub <topic> <message>")>>, call |-> NoCall]
    ELSE [log |-> <<>>, call |-> Call("publish", args[1], join(slice1(args)))]

\* lines 148-156
casePub(args) ==
    IF Missing(args, 1) \/ Missing(args, 2)
    THEN [log |-> <<Out("Usage: pub <topic> <message>")>>, call |-> NoCall]
    ELSE [log |-> <<>>, call |-> Call("publish", args[1], join(slice1(args)))]

\* lines 162-168
casePeers(args) ==
    IF Missing(args, 1)
    THEN [log |-> <<Out("Usage: peers <topic>")>>, call |-> NoCall]
    ELSE [log |-> <<>>, call |-> Call("peers", args[1], <<>>)]

\* caseDefault falling through to the listing of topics
caseDefaultListsTopics == [log |-> <<>>, call |-> Call("ls", <<>>, <<>>)]

\* lines 190-191
caseDefault ==
    [log |-> <<Out("Unknown command. Type help for available commands.")>>, call |-> NoCall]

processCommand(input) ==
    LET words == split(trim(input))
        command == Head(words)
        args == Tail(words)
    IN  CASE command = <<"sub">> -> caseSub(args)
          [] command = <<"pub">> -> casePub(args)
          [] command = <<"topics">> ->
               [log |-> <<>>, call |-> Call("ls", <<>>, <<>>)]
          [] command = <<"peers">> -> casePeers(args)
          [] command = <<"info">> ->
               [log |-> <<Out("Node ID:"), Out("Addresses:")>>, call |-> NoCall]
          [] command = <<"swarm">> ->
               [log |-> <<>>, call |-> Call("swarm.peers", <<>>, <<>>)]
          [] command = <<"quit">> ->
               [log |-> <<Out("Shutting down...")>>, call |-> Call("stop", <<>>, <<>>)]
          [] OTHER -> caseDefault

Parsed(input) ==
    LET words == split(trim(input))
    IN  [command |-> Head(words), args |-> Tail(words), call |-> processCommand(input).call]

----------------------------------------------------------------------------
(* The process *)

Alive == exitCode = NotExited

\* a new event (input, signal, network) is handled only when no continuation is
\* queued as a microtask
Idle == Alive /\ resuming = 0

Init ==
    /\ mainPc = "create"
    /\ lineHandler = FALSE
    /\ sigHandler = FALSE
    /\ nodeState = "none"
    /\ pending = EmptyBag
    /\ resuming = 0
    /\ sigPending = 0
    /\ stopCalls = 0
    /\ subs = EmptyBag
    /\ lastOut = <<Out("Starting IPFS node...")>>
    /\ last = [command |-> <<>>, args |-> <<>>, call |-> NoCall]
    /\ nLines = 0
    /\ nSignals = 0
    /\ exitCode = NotExited
    /\ random = [k \in PortNames |-> ZeroRandom]
    /\ ports = GeneratedPorts(random)
    /\ repoPath = RepoPath(ports["swarm"])

\* main() is called and has drawn nothing yet; Math.random() may give any value
InitPorts ==
    /\ mainPc = "start"
    /\ lineHandler = FALSE
    /\ sigHandler = FALSE
    /\ nodeState = "none"
    /\ pending = EmptyBag
    /\ resuming = 0
    /\ sigPending = 0
    /\ stopCalls = 0
    /\ subs = EmptyBag
    /\ lastOut = <<>>
    /\ last = [command |-> <<>>, args |-> <<>>, call |-> NoCall]
    /\ nLines = 0
    /\ nSignals = 0
    /\ exitCode = NotExited
    /\ random \in [PortNames -> RandomValues]
    /\ ports = [k \in PortNames |-> 0]
    /\ repoPath = <<>>

\* lines 13-22: main() generates the ports and the path and runs to the await of
\* create
generatePorts ==
    /\ Alive /\ mainPc = "start"
    /\ mainPc' = "create"
    /\ ports' = GeneratedPorts(random)
    /\ repoPath' = RepoPath(ports'["swarm"])
    /\ lastOut' = <<Out("Starting IPFS node...")>>
    /\ UNCHANGED <<random, lineHandler, sigHandler, nodeState, pending, resuming,
                   sigPending, stopCalls, subs, last, nLines, nSignals, exitCode>>

\* line 22: create resolves; lines 46-54 run to the await of node.id()
createResolve ==
    /\ Alive /\ mainPc = "create"
    /\ mainPc' = "id"
    /\ nodeState' = "running"
    /\ lastOut' = <<Out("IPFS node is ready"), Out("Gateway port:")>>
    /\ UNCHANGED <<portVars, lineHandler, sigHandler, pending, resuming, sigPending, stopCalls,
                   subs, last, nLines, nSignals, exitCode>>

\* createReject with the rejection swallowed, as lines 61-66 do for swarm.peers
createRejectSwallowed ==
    /\ Alive /\ mainPc = "create"
    /\ mainPc' = "id"
    /\ nodeState' = "startFailed"
    /\ lastOut' = <<Out("(error)")>>
    /\ UNCHANGED <<portVars, lineHandler, sigHandler, pending, resuming, sigPending,
                   stopCalls, subs, last, nLines, nSignals, exitCode>>

\* line 22: create rejects; main() rejects and line 215 logs the error
createReject ==
    /\ Alive /\ mainPc = "create"
    /\ mainPc' = "createFailed"
    /\ nodeState' = "startFailed"
    /\ lastOut' = <<Out("(error)")>>
    /\ UNCHANGED <<portVars, lineHandler, sigHandler, pending, resuming, sigPending,
                   stopCalls, subs, last, nLines, nSignals, exitCode>>

\* line 54: node.id() resolves; lines 55-62 run to the await of node.swarm.peers()
idResolve ==
    /\ Alive /\ mainPc = "id"
    /\ mainPc' = "swarm"
    /\ lastOut' = <<Out("Node ID:"), Out("Node addresses:"), Out("Connecting to IPFS swarm...")>>
    /\ UNCHANGED <<portVars, lineHandler, sigHandler, nodeState, pending, resuming, sigPending,
                   stopCalls, subs, last, nLines, nSignals, exitCode>>

\* line 54: node.id() rejects; main() rejects and line 215 logs the error
idReject ==
    /\ Alive /\ mainPc = "id"
    /\ mainPc' = "idFailed"
    /\ lastOut' = <<Out("(error)")>>
    /\ UNCHANGED <<portVars, lineHandler, sigHandler, nodeState, pending, resuming, sigPending,
                   stopCalls, subs, last, nLines, nSignals, exitCode>>

\* what the await of line 62 gives: a rejection, or a list of n peers
SwarmOutcomes ==
    {[ok |-> FALSE, n |-> 0]} \cup {[ok |-> TRUE, n |-> k] : k \in 0..MaxPeers}

\* lines 63 and 65
SwarmLog(outcome) ==
    IF outcome.ok
    THEN [text |-> "Connected to", data |-> <<ToString(outcome.n)>>]
    ELSE Out("Failed to connect to swarm:")

\* enterConsole without the try/catch of lines 61-66: a rejection rejects main()
enterConsoleUnlessFailed(outcome) ==
    /\ Alive /\ mainPc = "swarm"
    /\ mainPc' = IF outcome.ok THEN "console" ELSE "swarmFailed"
    /\ lineHandler' = outcome.ok
    /\ sigHandler' = outcome.ok
    /\ lastOut' = IF outcome.ok THEN <<SwarmLog(outcome)>> \o Menu \o <<PROMPT>>
                  ELSE <<Out("(error)")>>
    /\ UNCHANGED <<portVars, nodeState, pending, resuming, sigPending, stopCalls, subs, last,
                   nLines, nSignals, exitCode>>

\* lines 62-66 and 121-211: node.swarm.peers() settles either way, then main()
\* prints the menu, registers the line handler, renders the first prompt and
\* registers the SIGINT handler
enterConsole(outcome) ==
    /\ Alive /\ mainPc = "swarm"
    /\ mainPc' = "console"
    /\ lineHandler' = TRUE
    /\ sigHandler' = TRUE
    /\ lastOut' = <<SwarmLog(outcome)>> \o Menu \o <<PROMPT>>
    /\ UNCHANGED <<portVars, nodeState, pending, resuming, sigPending, stopCalls, subs, last,
                   nLines, nSignals, exitCode>>

\* lines 195-197: a 'line' event; processCommand runs to its first await, or to
\* its end when it makes no node call
rlOnLine(input) ==
    /\ Alive /\ lineHandler
    /\ nLines < MaxLines
    /\ LET r == processCommand(input)
       IN  /\ lastOut' = IF r.log = <<>> THEN lastOut ELSE r.log
           /\ IF r.call = NoCall
              THEN /\ resuming' = resuming + 1
                   /\ UNCHANGED <<portVars, pending, stopCalls>>
              ELSE /\ pending' = pending (+) One(Key(r.call))
                   /\ stopCalls' = stopCalls + (IF r.call.op = "stop" THEN 1 ELSE 0)
                   /\ UNCHANGED resuming
    /\ last' = Parsed(input)
    /\ nLines' = nLines + 1
    /\ UNCHANGED <<portVars, mainPc, lineHandler, sigHandler, nodeState, sigPending, subs,
                   nSignals, exitCode>>

\* line 201: the handler of a command that made no node call resumes
resume ==
    /\ Alive /\ resuming > 0
    /\ resuming' = resuming - 1
    /\ lastOut' = <<PROMPT>>
    /\ UNCHANGED <<portVars, mainPc, lineHandler, sigHandler, nodeState, pending, sigPending,
                   stopCalls, subs, last, nLines, nSignals, exitCode>>

\* settle with the rl.prompt() of line 201 left out
settleNoPrompt(key, log) ==
    /\ Idle /\ BagIn(key, pending)
    /\ pending' = pending (-) One(key)
    /\ lastOut' = log
    /\ UNCHANGED <<portVars, mainPc, lineHandler, sigHandler, nodeState, resuming, sigPending,
                   stopCalls, last, nLines, nSignals, exitCode>>

\* a node call of a command settles: the handler logs and reaches rl.prompt()
settle(key, log) ==
    /\ Idle /\ BagIn(key, pending)
    /\ pending' = pending (-) One(key)
    /\ lastOut' = log \o <<PROMPT>>
    /\ UNCHANGED <<portVars, mainPc, lineHandler, sigHandler, nodeState, resuming, sigPending,
                   stopCalls, last, nLines, nSignals, exitCode>>

Topics == {<<w>> : w \in TopicWords}

\* lines 73-78
subscribeResolve(topic) ==
    /\ settle([op |-> "subscribe", topic |-> topic], <<Out("Subscribed to topic:")>>)
    /\ subs' = subs (+) One(topic)

\* lines 79-81
subscribeReject(topic) ==
    /\ settle([op |-> "subscribe", topic |-> topic], <<Out("Failed to subscribe:")>>)
    /\ UNCHANGED subs

\* lines 88-89
publishResolve(topic) ==
    /\ settle([op |-> "publish", topic |-> topic], <<Out("Published message to")>>)
    /\ UNCHANGED subs

\* lines 90-92
publishReject(topic) ==
    /\ settle([op |-> "publish", topic |-> topic], <<Out("Failed to publish:")>>)
    /\ UNCHANGED subs

\* lines 98-101
listTopicsResolve ==
    /\ settle([op |-> "ls", topic |-> <<>>], <<Out("Subscribed topics:")>>)
    /\ UNCHANGED subs

\* lines 102-104
listTopicsReject ==
    /\ settle([op |-> "ls", topic |-> <<>>], <<Out("Failed to list topics:")>>)
    /\ UNCHANGED subs

\* lines 110-113
listPeersResolve(topic) ==
    /\ settle([op |-> "peers", topic |-> topic], <<Out("Peers subscribed to")>>)
    /\ UNCHANGED subs

\* lines 114-116
listPeersReject(topic) ==
    /\ settle([op |-> "peers", topic |-> topic], <<Out("Failed to list peers:")>>)
    /\ UNCHANGED subs

\* lines 177-182
swarmResolve ==
    /\ settle([op |-> "swarm.peers", topic |-> <<>>], <<Out("Connected peers:")>>)
    /\ UNCHANGED subs

\* swarmReject without the try/catch of lines 196-200: the rejection is unhandled
swarmRejectUncaught ==
    /\ Idle /\ BagIn([op |-> "swarm.peers", topic |-> <<>>], pending)
    /\ pending' = pending (-) One([op |-> "swarm.peers", topic |-> <<>>])
    /\ lastOut' = <<Out("(unhandled rejection)")>>
    /\ exitCode' = 1
    /\ UNCHANGED <<portVars, mainPc, lineHandler, sigHandler, nodeState, resuming, sigPending,
                   stopCalls, subs, last, nLines, nSignals>>

\* line 177 throws out of processCommand; lines 198-201
swarmReject ==
    /\ settle([op |-> "swarm.peers", topic |-> <<>>], <<Out("Error processing command:")>>)
    /\ UNCHANGED subs

\* lines 186-187: the stop call of a quit resolves and the process exits
quitStopResolve ==
    /\ Idle /\ BagIn([op |-> "stop", topic |-> <<>>], pending)
    /\ pending' = pending (-) One([op |-> "stop", topic |-> <<>>])
    /\ nodeState' = "stopped"
    /\ exitCode' = 0
    /\ UNCHANGED <<portVars, mainPc, lineHandler, sigHandler, resuming, sigPending, stopCalls,
                   subs, lastOut, last, nLines, nSignals>>

\* quitStopReject with process.exit(0) reached although stop rejected
quitStopRejectExits ==
    /\ Idle /\ BagIn([op |-> "stop", topic |-> <<>>], pending)
    /\ pending' = pending (-) One([op |-> "stop", topic |-> <<>>])
    /\ exitCode' = 0
    /\ UNCHANGED <<portVars, mainPc, lineHandler, sigHandler, nodeState, resuming, sigPending,
                   stopCalls, subs, lastOut, last, nLines, nSignals>>

\* line 186 throws out of processCommand; lines 198-201
quitStopReject ==
    /\ settle([op |-> "stop", topic |-> <<>>], <<Out("Error processing command:")>>)
    /\ UNCHANGED subs

\* lines 207-209: a SIGINT event
onSIGINT ==
    /\ Idle /\ sigHandler
    /\ nSignals < MaxSignals
    /\ nSignals' = nSignals + 1
    /\ lastOut' = <<Out("Shutting down IPFS node...")>>
    /\ stopCalls' = stopCalls + 1
    /\ sigPending' = sigPending + 1
    /\ UNCHANGED <<portVars, mainPc, lineHandler, sigHandler, nodeState, pending, resuming, subs,
                   last, nLines, exitCode>>

\* lines 209-210: the stop call of a SIGINT handler resolves and the process exits
sigStopResolve ==
    /\ Idle /\ sigPending > 0
    /\ sigPending' = sigPending - 1
    /\ nodeState' = "stopped"
    /\ exitCode' = 0
    /\ UNCHANGED <<portVars, mainPc, lineHandler, sigHandler, pending, resuming, stopCalls, subs,
                   lastOut, last, nLines, nSignals>>

\* line 209 throws out of the SIGINT handler, which nothing awaits: an unhandled
\* rejection, which ends the process with code 1 or only warns, by the runtime
sigStopReject(fatal) ==
    /\ Idle /\ sigPending > 0
    /\ sigPending' = sigPending - 1
    /\ lastOut' = <<Out("(unhandled rejection)")>>
    /\ exitCode' = IF fatal THEN 1 ELSE exitCode
    /\ UNCHANGED <<portVars, mainPc, lineHandler, sigHandler, nodeState, pending, resuming,
                   stopCalls, subs, last, nLines, nSignals>>

\* onMessage with a callback that registers itself again
onMessageResubscribes(topic, data) ==
    /\ Idle /\ BagIn(topic, subs)
    /\ lastOut' = <<Received(topic, uint8ArrayToString(data))>>
    /\ subs' = subs (+) One(topic)
    /\ UNCHANGED <<portVars, mainPc, lineHandler, sigHandler, nodeState, pending, resuming,
                   sigPending, stopCalls, last, nLines, nSignals, exitCode>>

\* lines 73-77: the callback of one registration runs for an inbound message
onMessage(topic, data) ==
    /\ Idle /\ BagIn(topic, subs)
    /\ lastOut' = <<Received(topic, uint8ArrayToString(data))>>
    /\ UNCHANGED <<portVars, mainPc, lineHandler, sigHandler, nodeState, pending, resuming,
                   sigPending, stopCalls, subs, last, nLines, nSignals, exitCode>>

Next ==
    \/ createResolve
    \/ createReject
    \/ idResolve
    \/ idReject
    \/ \E outcome \in SwarmOutcomes : enterConsole(outcome)
    \/ \E input \in Lines : rlOnLine(input)
    \/ resume
    \/ \E topic \in Topics : subscribeResolve(topic)
    \/ \E topic \in Topics : subscribeReject(topic)
    \/ \E topic \in Topics : publishResolve(topic)
    \/ \E topic \in Topics : publishReject(topic)
    \/ listTopicsResolve
    \/ listTopicsReject
    \/ \E topic \in Topics : listPeersResolve(topic)
    \/ \E topic \in Topics : listPeersReject(topic)
    \/ swarmResolve
    \/ swarmReject
    \/ quitStopResolve
    \/ quitStopReject
    \/ onSIGINT
    \/ sigStopResolve
    \/ \E fatal \in BOOLEAN : sigStopReject(fatal)
    \/ \E topic \in Topics, data \in Payloads : onMessage(topic, data)

Spec == Init /\ [][Next]_vars

\* startup alone, from the call of main() to the settling of create
NextPorts == generatePorts \/ createResolve \/ createReject

PortSpec == InitPorts /\ [][NextPorts]_vars

\* a node call of a command other than stop settles, either way
commandCallSettles ==
    \/ \E topic \in Topics : subscribeResolve(topic) \/ subscribeReject(topic)
    \/ \E topic \in Topics : publishResolve(topic) \/ publishReject(topic)
    \/ listTopicsResolve \/ listTopicsReject
    \/ \E topic \in Topics : listPeersResolve(topic) \/ listPeersReject(topic)
    \/ swarmResolve \/ swarmReject

\* the microtask queue is always drained, and the node settles every call of a
\* command other than stop
FairSpec == Spec /\ WF_vars(resume) /\ WF_vars(commandCallSettles)

----------------------------------------------------------------------------
(* Vocabulary of the properties *)

StopKey == [op |-> "stop", topic |-> <<>>]

\* the words of a command line that are not empty pieces
Given(args) == SelectSeq(args, LAMBDA w : w # <<>>)

\* a verb that requires arguments was given too few
TooFew(line) ==
    \/ line.command \in {<<"sub">>, <<"peers">>} /\ Len(Given(line.args)) = 0
    \/ line.command = <<"pub">> /\ Len(Given(line.args)) < 2

UsageOf(command) ==
    CASE command = <<"sub">> -> Out("Usage: sub <topic>")
      [] command = <<"pub">> -> Out("Usage: pub <topic> <message>")
      [] command = <<"peers">> -> Out("Usage: peers <topic>")

\* this step handles a 'line' event
LineStep == nLines' = nLines + 1

\* this step settles a node call made by a command
CommandCallSettles == BagCardinality(pending') < BagCardinality(pending)

\* this step settles the stop call of a quit
QuitStopSettles == CopiesIn(StopKey, pending') < CopiesIn(StopKey, pending)

\* this step settles the stop call of a SIGINT handler
SignalStopSettles == sigPending' < sigPending

IsMessage(w) == w.text = "Received message on"

\* the console is entered and nothing is running: it waits for input
WaitingForInput ==
    /\ mainPc = "console" /\ Alive
    /\ resuming = 0 /\ pending = EmptyBag /\ sigPending = 0

----------------------------------------------------------------------------
(* C1: node.stop() is invoked at most once, for every interleaving of quit
   lines and SIGINT events.  The code has no guard: each quit line and each
   SIGINT calls node.stop(). *)
C1_StopAtMostOnce == stopCalls <= 1

(* C2: at most one processCommand invocation is in flight: no line is
   dispatched while an earlier line still awaits its node call.  The code
   dispatches every 'line' event at once. *)
C2_OneDispatchAtATime == BagCardinality(pending) <= 1

(* C3: a line whose verb requires arguments and is given too few (sub or peers
   with no topic, pub with fewer than two words) prints the usage message of
   that verb, makes no node call, and its handler goes straight on to
   rl.prompt(). *)
C3_TooFewArgsUsage ==
    [][(LineStep /\ TooFew(last'))
         => /\ lastOut' = <<UsageOf(last'.command)>>
            /\ last'.call = NoCall
            /\ pending' = pending
            /\ stopCalls' = stopCalls
            /\ resuming' = resuming + 1]_vars

C3_Witness ==
    /\ last.command = <<"pub">>
    /\ Len(last.args) = 1 /\ Len(Given(last.args)) = 1
    /\ lastOut = <<Out("Usage: pub <topic> <message>")>>
    /\ pending = EmptyBag /\ resuming = 1

(* C4: when a node call made by a command settles, either it is a stop call
   that resolved, or (every failure included) the handler logs the outcome,
   renders the prompt and leaves the process alive, the node as it was and the
   line handler registered. *)
C4_CommandFailureCaught ==
    [][CommandCallSettles
         => \/ QuitStopSettles /\ nodeState' = "stopped" /\ exitCode' = 0
            \/ /\ exitCode' = NotExited /\ lineHandler'
               /\ nodeState' = nodeState
               /\ Len(lastOut') = 2 /\ LastWrite' = PROMPT]_vars

C4_Witness ==
    /\ lastOut = <<Out("Error processing command:"), PROMPT>>
    /\ last.command = <<"quit">>
    /\ stopCalls = 1 /\ pending = EmptyBag
    /\ Alive /\ lineHandler /\ nLines < MaxLines

(* C5: if create fails, the console is never entered: no line handler and no
   SIGINT handler is registered, no prompt is rendered, no line or signal is
   handled and no node call is made. *)
C5_StartFailureNoConsole ==
    nodeState = "startFailed"
        => /\ ~lineHandler /\ ~sigHandler
           /\ mainPc = "createFailed"
           /\ \A i \in 1..Len(lastOut) : lastOut[i] # PROMPT
           /\ nLines = 0 /\ nSignals = 0
           /\ pending = EmptyBag /\ resuming = 0 /\ stopCalls = 0

C5_Witness == nodeState = "startFailed" /\ mainPc = "createFailed"

(* C6 as stated: once the stop call of a quit has settled the process has
   exited with code 0, and the process never exits while the stop call of a
   quit is still awaited. *)
C6_QuitAlwaysExits ==
    [][/\ QuitStopSettles => exitCode' = 0
       /\ exitCode' # NotExited => ~BagIn(StopKey, pending')]_vars

(* C6 amended: when the stop call of a quit resolves the process exits with
   code 0 in that step; when it rejects the error is caught, the prompt is
   rendered and the process stays alive; and the process exits only in a step
   in which a stop call (of a quit or of a SIGINT handler) settles. *)
C6_QuitExitsWhenStopResolves ==
    [][/\ QuitStopSettles
           => \/ exitCode' = 0 /\ nodeState' = "stopped"
              \/ /\ exitCode' = NotExited /\ nodeState' = nodeState
                 /\ lastOut' = <<Out("Error processing command:"), PROMPT>>
       /\ exitCode' # exitCode
           => (exitCode = NotExited /\ (QuitStopSettles \/ SignalStopSettles))]_vars

C6_Witness ==
    /\ exitCode = 0 /\ nodeState = "stopped"
    /\ last.command = <<"quit">>
    /\ stopCalls = 1 /\ nSignals = 0

(* C7: once the stop call made by a SIGINT handler has settled, the process
   has exited with code 0.  The handler does not catch a rejected stop. *)
C7_SignalExitsZero == [][SignalStopSettles => exitCode' = 0]_vars

(* C8: a payload that does not decode to text is recorded as a decode failure:
   it is never written to the console as a received message. *)
C8_DecodeFailureRecorded ==
    \A i \in 1..Len(lastOut) : IsMessage(lastOut[i]) => ~Malformed(lastOut[i].data)

(* C9: a run of the message callback writes to the console and changes nothing
   else: subscriptions, calls in flight, queued continuations, handlers, node
   state and exit code stay as they are. *)
C9_CallbackFrame ==
    [][(lastOut' # lastOut /\ \E i \in 1..Len(lastOut') : IsMessage(lastOut'[i]))
         => UNCHANGED <<portVars, mainPc, lineHandler, sigHandler, nodeState, pending, resuming,
                        sigPending, stopCalls, subs, last, nLines, nSignals, exitCode>>]_vars

C9_Witness ==
    /\ IsMessage(LastWrite)
    /\ pending # EmptyBag
    /\ BagCardinality(subs) >= 1

(* C10: whenever the console waits for input, the last write is not a received
   message: a prompt was rendered after it.  The callback never calls
   rl.prompt(). *)
C10_PromptAfterMessage == WaitingForInput => ~IsMessage(LastWrite)

----------------------------------------------------------------------------
(* C11: every topic has at most one callback registered by this process.  The
   code registers a new callback at every sub of a topic. *)
C11_OneRegistrationPerTopic == \A topic \in Topics : CopiesIn(topic, subs) <= 1

(* C13: a pub line with a topic and at least one message word calls publish
   once, with the first word after the verb as topic and the remaining words
   joined by single spaces as message, however wide the gaps of the line are.
   The code splits at every single space, so a wide gap gives an empty
   argument. *)
C13_PublishRestOfLine ==
    [][(LineStep /\ last'.command = <<"pub">> /\ Len(Given(last'.args)) >= 2)
         => LET words == Given(last'.args)
            IN  /\ last'.call = Call("publish", words[1], join(Tail(words)))
                /\ pending' = pending (+) One(Key(last'.call))]_vars

(* C15: a line whose first word is none of the seven verbs (the empty line
   included) logs the unknown-command message, makes no node call, changes no
   subscription, and its handler goes straight on to rl.prompt(). *)
VerbTokens == {<<v>> : v \in Verbs}

C15_UnknownCommand ==
    [][(LineStep /\ last'.command \notin VerbTokens)
         => /\ lastOut' = <<Out("Unknown command. Type help for available commands.")>>
            /\ last'.call = NoCall
            /\ pending' = pending /\ stopCalls' = stopCalls
            /\ subs' = subs
            /\ resuming' = resuming + 1]_vars

C15_Witness ==
    /\ last.command = <<>> /\ nLines = 2
    /\ lastOut = <<Out("Unknown command. Type help for available commands.")>>
    /\ resuming = 1 /\ BagCardinality(subs) = 1

(* C17: once node.stop() has been invoked, no line makes a further node call
   (subscribe, publish, list topics, list peers, swarm peers).  The code
   dispatches lines while a stop call is awaited. *)
C17_NoCallAfterStop ==
    [][(LineStep /\ stopCalls >= 1) => last'.call.op \in {"none", "stop"}]_vars

(* C16: whatever node.swarm.peers() gives at startup (an empty list, a list of
   peers, a rejection), main() goes on to the console: the line handler and the
   SIGINT handler are registered and the first prompt is rendered. *)
C16_ConsoleEnteredAfterSwarm ==
    [][(mainPc = "swarm" /\ mainPc' # "swarm")
         => /\ mainPc' = "console" /\ exitCode' = NotExited
            /\ lineHandler' /\ sigHandler'
            /\ \E outcome \in SwarmOutcomes : lastOut'[1] = SwarmLog(outcome)
            /\ LastWrite' = PROMPT]_vars

C16_Witness ==
    /\ mainPc = "console" /\ lineHandler /\ sigHandler
    /\ lastOut[1] = Out("Failed to connect to swarm:")
    /\ LastWrite = PROMPT

(* C14: the number of line handlers that have not reached rl.prompt(), and the
   number of those whose line was not a quit *)
Outstanding == resuming + BagCardinality(pending)
Waiting == Outstanding - CopiesIn(StopKey, pending)

(* C14: a line that is not handled as quit is followed by its re-prompt unless
   the process exits first, given that the node settles its call; a handler
   that finishes renders the prompt in that step, and once the console is
   entered a prompt is rendered only by a handler that finishes. *)
C14_RePromptAfterSettle ==
    /\ [][/\ (Outstanding' < Outstanding /\ exitCode' = NotExited)
              => LastWrite' = PROMPT
          /\ (mainPc = "console" /\ lastOut' # lastOut /\ LastWrite' = PROMPT)
              => Outstanding' = Outstanding - 1]_vars
    /\ \A n \in 1..MaxLines :
           (Waiting = n) ~> (Waiting < n \/ exitCode # NotExited)

C14_Witness ==
    /\ last.call.op = "subscribe" /\ nLines = 1
    /\ pending = EmptyBag /\ resuming = 0
    /\ lastOut = <<Out("Failed to subscribe:"), PROMPT>>
    /\ exitCode = NotExited

(* Vocabulary of C12 *)
PortsGenerated == mainPc # "start"

PairwiseDistinct == \A k1, k2 \in PortNames : k1 # k2 => ports[k1] # ports[k2]

\* the path is that of the swarm port, and of no other swarm port
PathDeterminedBySwarmPort ==
    /\ repoPath = RepoPath(ports["swarm"])
    /\ \A q \in PortRange["swarm"][1]..PortRange["swarm"][2] :
           RepoPath(q) = repoPath <=> q = ports["swarm"]

(* C12 as stated: each port lies in min..max-1 of its call (swarm 4002..4998,
   websocket 5000..5998, API 6000..6998, gateway 7000..7998), the four ports
   are pairwise distinct and the repository path is determined by the swarm
   port. *)
C12_PortsBelowMax ==
    PortsGenerated
        => /\ \A k \in PortNames : ports[k] \in PortRange[k][1]..(PortRange[k][2] - 1)
           /\ PairwiseDistinct
           /\ PathDeterminedBySwarmPort

(* C12 amended: each port lies in min..max of its call, max included (swarm
   4002..4999, websocket 5000..5999, API 6000..6999, gateway 7000..7999); the
   four ports are pairwise distinct and the repository path is determined by
   the swarm port. *)
C12_PortsInRanges ==
    PortsGenerated
        => /\ \A k \in PortNames : ports[k] \in PortRange[k][1]..PortRange[k][2]
           /\ PairwiseDistinct
           /\ PathDeterminedBySwarmPort

C12_Witness ==
    /\ PortsGenerated
    /\ random["swarm"].top /\ ports["swarm"] = PortRange["swarm"][2]
    /\ ~random["ws"].top /\ ports["ws"] = PortRange["ws"][1]
    /\ repoPath = <<"./ipfs-repo-", "4", "9", "9", "9">>

====
